---- MODULE Spec2Model ----
(***************************************************************************)
(* A model of vultan: the key/index model (vultan/document.py), schema     *)
(* composition (the document metaclasses) and the mapper operations of     *)
(* Document / Storage against a document store.                            *)
(***************************************************************************)
EXTENDS Integers, Sequences, FiniteSets, TLC

VARIABLES
    added,      \* every key handed to _KeySet.add so far, in call order
    kset,       \* the _KeySet object: [keys: head -> list of entries, names]
    query,      \* the query of the last match
    uniq,       \* the unique flag of the last match
    result,     \* what the last operation did: a return marker or an error name
    ret,        \* the value the last operation returned
    lastOp,     \* the last operation
    types,      \* the document classes composed so far, in definition order
    schema,     \* the document class the mapper is bound to: [keys, attrs]
    docs,       \* the store's collection: the stored documents in natural order
    indexes,    \* the store's live index catalogue: a set of [name, spec, unique]
    nextId,     \* the number of the next ObjectId the store or its client generates
    calls,      \* the store primitives the last operation issued, in order
    flag,       \* the last operation's other argument: multi, require_index,
                \* the projection (find_one) or the attribute name (getattr)
    recon,      \* the create_indexes() run in progress: its position and locals
    hist,       \* the finished create_indexes() runs, in order
    strict,     \* the store rejects a create_index that conflicts with a live index
    peer,       \* the create_indexes() run of the caller that is not scheduled
    serial,     \* the callers serialize reconciliation
    ftype,      \* the field type whose codec is applied
    pyval,      \* the value on the domain side of the codec
    dbval       \* the value on the store side of the codec

keyVars == <<added, kset, query, uniq>>

reconVars == <<recon, hist, strict, peer, serial>>

codecVars == <<ftype, pyval, dbval>>

storeVars == <<schema, docs, indexes, nextId, calls, flag, recon, hist, strict, peer, serial,
               ftype, pyval, dbval>>

vars == <<added, kset, query, uniq, result, ret, lastOp, types,
          schema, docs, indexes, nextId, calls, flag, recon, hist, strict,
          peer, serial, ftype, pyval, dbval>>

(***************************************************************************)
(* Bounds of the model.                                                    *)
(***************************************************************************)
MaxDeclared == 2    \* declarations one _KeySet receives, constructor and add
MaxTypes == 3       \* document classes composed, the root class included
MaxIds == 2         \* ObjectIds generated for one collection

ASCENDING == 1      \* pymongo.ASCENDING, the default direction of _makepair

DESCENDING == 0 - ASCENDING

Fields == {"id", "x", "y"}

FieldOrder == <<"id", "x", "y">>

Null == 0 - 1       \* Python's None among the small non-negative values

Range(s) == {s[i] : i \in DOMAIN s}

(***************************************************************************)
(* Index and Key (document.py:18-51).  An entry is the list of             *)
(* (name, direction) pairs and the class attribute unique.                 *)
(***************************************************************************)
Index(pairs) == [index |-> pairs, unique |-> FALSE]

Key(pairs) == [index |-> pairs, unique |-> TRUE]

Asc(name) == <<name, ASCENDING>>

Desc(name) == <<name, DESCENDING>>

KeyNames(key) == [i \in DOMAIN key.index |-> key.index[i][1]]

KeyHead(key) == KeyNames(key)[1]

\* Index.__eq__: the pairs alone are compared, never the class or unique.
IndexEq(a, b) == a.index = b.index

\* Index.match returns the query whatever it holds; Key.match asserts.
\* TRUE: the call returns the query.  FALSE: it raises AssertionError.
KeyMatchHeadOnly(key, q, unique) ==
    IF key.unique THEN KeyHead(key) \in DOMAIN q ELSE TRUE

KeyMatchAllNames(key, q, unique) ==
    IF key.unique
    THEN \A i \in DOMAIN key.index : KeyNames(key)[i] \in DOMAIN q
    ELSE TRUE

KeyMatch(key, q, unique) ==
    IF key.unique
    THEN IF unique
         THEN \A i \in DOMAIN key.index : KeyNames(key)[i] \in DOMAIN q
         ELSE KeyHead(key) \in DOMAIN q
    ELSE TRUE

(***************************************************************************)
(* _KeySet (document.py:54-93): _keys is a defaultdict(list) from a head   *)
(* to the entries under it, names the set of every field of every entry.   *)
(***************************************************************************)
EmptyKeySet == [keys |-> <<>>, names |-> {}]

\* self._keys.get(head, []): no entry is created for an absent head.
KeysGet(ks, head) == IF head \in DOMAIN ks.keys THEN ks.keys[head] ELSE <<>>

\* key in self._keys[key.head], by Index.__eq__
InList(key, list) == \E i \in DOMAIN list : IndexEq(list[i], key)

KeySetAddNoDedup(ks, key) ==
    [keys |-> (KeyHead(key) :> Append(KeysGet(ks, KeyHead(key)), key)) @@ ks.keys,
     names |-> ks.names \cup Range(KeyNames(key))]

KeySetAdd(ks, key) ==
    IF ~InList(key, KeysGet(ks, KeyHead(key)))
    THEN [keys |-> (KeyHead(key) :> Append(KeysGet(ks, KeyHead(key)), key)) @@ ks.keys,
          names |-> ks.names \cup Range(KeyNames(key))]
    ELSE ks

RECURSIVE KeySetUpdate(_, _)
KeySetUpdate(ks, keys) ==
    IF keys = <<>> THEN ks
    ELSE KeySetUpdate(KeySetAdd(ks, keys[1]), Tail(keys))

IdKey == Key(<<Asc("id")>>)

\* _KeySet.__init__: the declarations first, Key('id') last.
KeySetInit(args) == KeySetAdd(KeySetUpdate(EmptyKeySet, args), IdKey)

\* _KeySet.__iter__: the entries of every head.  The order of the heads is
\* the dict's; nothing below depends on it, so the field order stands in.
RECURSIVE KeySetIterFrom(_, _)
KeySetIterFrom(ks, i) ==
    IF i > Len(FieldOrder) THEN <<>>
    ELSE KeysGet(ks, FieldOrder[i]) \o KeySetIterFrom(ks, i + 1)

KeySetIter(ks) == KeySetIterFrom(ks, 1)

KeySetEntries(ks) == Range(KeySetIter(ks))

\* _KeySet.match: the first entry under a head of the query whose match
\* does not raise returns the query; otherwise KeyMatchError.
KeySetMatch(ks, q, unique) ==
    IF \E head \in DOMAIN q :
          \E i \in DOMAIN KeysGet(ks, head) : KeyMatch(KeysGet(ks, head)[i], q, unique)
    THEN "ok"
    ELSE "KeyMatchError"

(***************************************************************************)
(* The declarations and queries the key set is exercised with.             *)
(***************************************************************************)
KeyUniverse ==
    { Key(<<Asc("id")>>), Index(<<Asc("id")>>), Key(<<Desc("id")>>),
      Key(<<Asc("x")>>), Index(<<Asc("x")>>),
      Key(<<Asc("y")>>),
      Key(<<Asc("x"), Asc("y")>>), Index(<<Asc("x"), Asc("y")>>),
      Index(<<Asc("y"), Asc("x")>>) }

SeqsUpTo(S, n) == UNION { [1..k -> S] : k \in 0..n }

QueryShapes == UNION { [S -> {1}] : S \in SUBSET Fields }

NoQuery == <<>>

\* No create_indexes() run has started.
NoRun ==
    [pc |-> "idle", todo |-> <<>>, created |-> <<>>, pending |-> {},
     dropped |-> <<>>, before |-> {}]

ReconIdle ==
    /\ recon = NoRun
    /\ hist = <<>>
    /\ strict = FALSE
    /\ peer = NoRun
    /\ serial = TRUE

\* No codec is applied.
CodecIdle ==
    /\ ftype = "none"
    /\ pyval = <<>>
    /\ dbval = <<>>

\* The store variables where no mapper is bound to a collection.
StoreIdle ==
    /\ ReconIdle
    /\ CodecIdle
    /\ schema = <<>>
    /\ docs = <<>>
    /\ indexes = {}
    /\ nextId = 1
    /\ calls = <<>>
    /\ flag = FALSE

\* _KeySet(*args): the state after construction
InitKeys ==
    \E args \in SeqsUpTo(KeyUniverse, MaxDeclared) :
        /\ added = Append(args, IdKey)
        /\ kset = KeySetInit(args)
        /\ query = NoQuery
        /\ uniq = FALSE
        /\ result = "none"
        /\ ret = NoQuery
        /\ lastOp = "construct"
        /\ types = <<>>
        /\ StoreIdle

\* _KeySet.add(key) on a constructed key set
Add ==
    \E key \in KeyUniverse :
        /\ Len(added) < MaxDeclared + 1
        /\ added' = Append(added, key)
        /\ kset' = KeySetAdd(kset, key)
        /\ query' = NoQuery
        /\ uniq' = FALSE
        /\ result' = "none"
        /\ ret' = NoQuery
        /\ lastOp' = "add"
        /\ UNCHANGED <<types, storeVars>>

\* _KeySet.match(query, unique)
Match ==
    \E q \in QueryShapes, u \in BOOLEAN :
        /\ query' = q
        /\ uniq' = u
        /\ result' = KeySetMatch(kset, q, u)
        /\ ret' = IF KeySetMatch(kset, q, u) = "ok" THEN q ELSE NoQuery
        /\ lastOp' = "match"
        /\ UNCHANGED <<added, kset, types, storeVars>>

NextKeys == Add \/ Match

SpecKeys == InitKeys /\ [][NextKeys]_vars

(***************************************************************************)
(* Field types (types.py) as far as composition needs them: the class and  *)
(* the store alias set by Field.dbname ("" when none was set).             *)
(***************************************************************************)
FieldType(kind, alias) == [kind |-> kind, dbname |-> alias]

IntF == FieldType("Int", "")

StringF == FieldType("String", "")

ObjectIdF == FieldType("ObjectId", "_id")

\* Field.get_dbname
GetDbname(ft, name) == IF ft.dbname # "" THEN ft.dbname ELSE name

(***************************************************************************)
(* _Attributes (document.py:96-118): a dict from field name to field type. *)
(***************************************************************************)
NoAttrs == [n \in {} |-> IntF]

\* _Attributes.__init__: the identifier field is injected when absent.
AttributesInit(dct) ==
    IF "id" \notin DOMAIN dct THEN ("id" :> ObjectIdF) @@ dct ELSE dct

\* The names whose redefinition _Attributes.update asserts against.
AttrCollisions(dct, other) == { n \in DOMAIN other \ {"id"} : n \in DOMAIN dct }

\* _Attributes.update without its assertion: every other field but id is set.
AttrMerge(dct, other) ==
    [n \in DOMAIN dct \cup (DOMAIN other \ {"id"}) |->
        IF n \in DOMAIN other \ {"id"} THEN other[n] ELSE dct[n]]

(***************************************************************************)
(* _DocumentMetaclass.__new__ / _NewDocumentMetaclass.__new__: the class's *)
(* own _keys and _attributes, then those of each direct base in order.     *)
(* A class is [body, bases, keys, attrs]; bases are positions in types.    *)
(***************************************************************************)
RECURSIVE MergeKeys(_, _, _)
MergeKeys(ks, bases, ts) ==
    IF bases = <<>> THEN ks
    ELSE MergeKeys(KeySetUpdate(ks, KeySetIter(ts[bases[1]].keys)), Tail(bases), ts)

\* The attributes after merging the bases: [err, dct], err "AssertionError"
\* when a base redefines a name already present and "" otherwise.
RECURSIVE MergeAttrs(_, _, _)
MergeAttrs(dct, bases, ts) ==
    IF bases = <<>> THEN [err |-> "", dct |-> dct]
    ELSE IF AttrCollisions(dct, ts[bases[1]].attrs) # {}
    THEN [err |-> "AssertionError", dct |-> dct]
    ELSE MergeAttrs(AttrMerge(dct, ts[bases[1]].attrs), Tail(bases), ts)

ComposeKeys(body, bases, ts) == MergeKeys(KeySetInit(body.keys), bases, ts)

ComposeAttrs(body, bases, ts) == MergeAttrs(AttributesInit(body.attrs), bases, ts)

ClassBody(keys, attrs) == [keys |-> keys, attrs |-> attrs]

ClassBodies ==
    { ClassBody(<<>>, NoAttrs),
      ClassBody(<<Key(<<Asc("y")>>)>>, "x" :> IntF),
      ClassBody(<<Index(<<Asc("y")>>)>>, "y" :> StringF),
      ClassBody(<<Index(<<Asc("id")>>)>>, ("id" :> StringF) @@ ("x" :> IntF)),
      ClassBody(<<Key(<<Asc("x"), Asc("y")>>), Key(<<Asc("y")>>)>>, NoAttrs),
      ClassBody(<<>>, "y" :> IntF) }

\* The base class of the hierarchy (ReadOnlyDocument, NewDocument): it
\* declares nothing and its only base, object, has no _keys or _attributes.
RootClass ==
    [body |-> ClassBody(<<>>, NoAttrs), bases |-> <<>>,
     keys |-> ComposeKeys(ClassBody(<<>>, NoAttrs), <<>>, <<>>),
     attrs |-> ComposeAttrs(ClassBody(<<>>, NoAttrs), <<>>, <<>>).dct]

BaseLists(n) ==
    { <<i>> : i \in 1..n } \cup { p \in (1..n) \X (1..n) : p[1] # p[2] }

InitCompose ==
    /\ types = <<RootClass>>
    /\ added = <<>>
    /\ kset = EmptyKeySet
    /\ query = NoQuery
    /\ uniq = FALSE
    /\ result = "none"
    /\ ret = NoQuery
    /\ lastOp = "init"
    /\ StoreIdle

\* class C(bases): _keys = ...; _attributes = ...
\* The assertion of a failed class statement is caught by nothing: it ends
\* the import, and no further class is defined.
Compose ==
    \E body \in ClassBodies, bases \in BaseLists(Len(types)) :
        LET merged == ComposeAttrs(body, bases, types)
        IN  /\ result # "AssertionError"
            /\ lastOp' = "compose"
            /\ IF merged.err # ""
               THEN /\ result' = merged.err
                    /\ UNCHANGED types
               ELSE /\ Len(types) < MaxTypes
                    /\ result' = "ok"
                    /\ types' = Append(types,
                           [body |-> body, bases |-> bases,
                            keys |-> ComposeKeys(body, bases, types),
                            attrs |-> merged.dct])
            /\ ret' = [body |-> body, bases |-> bases]
            /\ UNCHANGED <<keyVars, storeVars>>

NextCompose == Compose

SpecCompose == InitCompose /\ [][NextCompose]_vars

(***************************************************************************)
(* Values.  A stored or domain value is a small integer: Null is None, an  *)
(* ObjectId is 100 + n and its string form (str(ObjectId), the form the    *)
(* mapper hands out and accepts) is n.  The stored values that are not     *)
(* numbers: 200 + n is the string of the decimal digits of n, Word a       *)
(* string that is no numeral, ListRaw a list and DictRaw a nested mapping. *)
(***************************************************************************)
Oid(n) == 100 + n

IsOid(v) == v >= 100 /\ v < 200

NumStr(n) == 200 + n

IsNumStr(v) == v >= 200 /\ v < 300

Word == 300

ListRaw == 400

DictRaw == 500

OidStr(v) == v - 100

Vals == {1, 2}

(***************************************************************************)
(* Field codecs (types.py).                                                *)
(***************************************************************************)
\* The enum of the EnumField / EnumSetField under test, in its own order.
Enum == <<"r", "g", "b">>

EnumSetF == FieldType("EnumSet", "")

\* _unique_list(seq): the first occurrence of each item, in order.
RECURSIVE UniqueList(_)
UniqueList(seq) ==
    IF seq = <<>> THEN <<>>
    ELSE LET init == UniqueList(SubSeq(seq, 1, Len(seq) - 1))
             last == seq[Len(seq)]
         IN  IF last \in Range(init) THEN init ELSE Append(init, last)

\* EnumField.do_from_mongo (and, by Field.do_to_mongo, its do_to_mongo)
\* gives None for an item outside the enum.
InEnum(item) == item \in Range(Enum)

\* ListField.do_from_mongo over EnumField: each item decoded, None dropped.
ListDoFromMongo(value) == SelectSeq(value, InEnum)

\* SetField.do_from_mongo
SetDoFromMongo(value) == UniqueList(ListDoFromMongo(value))

\* EnumSetField.do_from_mongo: the enum's items, all of them when the
\* decoded list is empty, else those in the decoded list.
EnumSetDoFromMongo(value) ==
    LET decoded == SetDoFromMongo(value)
    IN  SelectSeq(Enum, LAMBDA item : decoded = <<>> \/ item \in Range(decoded))

\* ListField.do_to_mongo over EnumField
ListDoToMongo(value) == IF value = <<>> THEN <<>> ELSE SelectSeq(value, InEnum)

\* SetField.do_to_mongo
SetDoToMongo(value) == IF value = <<>> THEN <<>> ELSE ListDoToMongo(UniqueList(value))

EnumSetKeepFull(value) == SetDoToMongo(value)

\* EnumSetField.do_to_mongo: value if len(value) != len(self._enum) else []
EnumSetDoToMongo(value) ==
    IF Len(SetDoToMongo(value)) # Len(Enum) THEN SetDoToMongo(value) ELSE <<>>

\* int(value): [exc, val].  TypeError for what is neither a string nor a
\* number, ValueError for a string that is no numeral.
IntOf(v) ==
    IF v = Null \/ IsOid(v) \/ v \in {ListRaw, DictRaw} THEN [exc |-> "TypeError", val |-> Null]
    ELSE IF v = Word THEN [exc |-> "ValueError", val |-> Null]
    ELSE IF IsNumStr(v) THEN [exc |-> "", val |-> v - 200]
    ELSE [exc |-> "", val |-> v]

\* IntField(default=0)
IntDefault == 0

\* IntField.do_from_mongo: [exc, val]; except TypeError: return self._default
IntDoFromMongo(v) ==
    IF IntOf(v).exc = "TypeError" THEN [exc |-> "", val |-> IntDefault] ELSE IntOf(v)

\* The exception do_from_mongo raises, "" when it returns.
DoFromMongoRaises(ft, v) == IF ft.kind = "Int" THEN IntDoFromMongo(v).exc ELSE ""

\* ObjectIdField.do_from_mongo: str(value) of an ObjectId, else None.
DoFromMongo(ft, v) ==
    CASE ft.kind = "Int" -> IntDoFromMongo(v).val
      [] ft.kind = "EnumSet" -> EnumSetDoFromMongo(v)
      [] ft.kind = "ObjectId" -> IF v # Null /\ IsOid(v) THEN OidStr(v) ELSE Null
      [] ft.kind = "Identity" -> v

\* Field.from_mongo: do_from_mongo, None on any exception but
\* NotImplementedError, which no codec above raises.
FromMongo(ft, v) == IF DoFromMongoRaises(ft, v) # "" THEN Null ELSE DoFromMongo(ft, v)

\* IntField.do_to_mongo: None -> None, else int(value).
\* ObjectIdField.do_to_mongo: an ObjectId as it is, a string parsed, None.
DoToMongo(ft, v) ==
    CASE ft.kind = "Int" -> v
      [] ft.kind = "EnumSet" -> EnumSetDoToMongo(v)
      [] ft.kind = "ObjectId" -> IF v = Null \/ IsOid(v) THEN v ELSE Oid(v)
      [] ft.kind = "Identity" -> v

\* None where an item is expected.
NoneItem == "None"

\* ListField.to_mongo(value, context) over EnumField: [err, val].  Under
\* 'ATOM' the value is an item and goes through the subfield; under 'LIST'
\* and 'MANY' it is a list; under 'AUTO' and 'NONE' the values given here
\* are lists (the isinstance(value, list) branch).
ListToMongo(ft, v, context) ==
    IF context \in {"LIST", "MANY", "AUTO", "NONE"}
    THEN [err |-> "", val |-> DoToMongo(ft, v)]
    ELSE IF context = "ATOM"
    THEN [err |-> "", val |-> IF InEnum(v) THEN v ELSE NoneItem]
    ELSE [err |-> "InvalidTransformContextError", val |-> NoneItem]

ToMongoNoContextCheck(ft, v, context) ==
    IF ft.kind = "EnumSet" THEN ListToMongo(ft, v, context)
    ELSE [err |-> "", val |-> DoToMongo(ft, v)]

\* Field.to_mongo(value, context): [err, val].  The context 'MANY' (the
\* operands of $in / $nin in a query) is used by no operation here.
ToMongo(ft, v, context) ==
    IF ft.kind = "EnumSet" THEN ListToMongo(ft, v, context)
    ELSE IF context \in {"AUTO", "NONE"} THEN [err |-> "", val |-> DoToMongo(ft, v)]
    ELSE IF context \in {"ATOM", "LIST"}
    THEN [err |-> "ScalarUsedInVectorTransformContextError", val |-> Null]
    ELSE [err |-> "InvalidTransformContextError", val |-> Null]

(***************************************************************************)
(* Translation to the store's form (document.py:264-328, new.py:122-181).  *)
(* A translation is [err, doc]: err names the exception raised, "" none.   *)
(***************************************************************************)
NoDoc == <<>>

\* _get_fieldtype raises UnrecognizedAttributeError for a name that is not
\* declared (no dotted names are used here).
Unrecognized(attrs, doc) == { k \in DOMAIN doc : k \notin DOMAIN attrs }

\* _to_mongo(doc, context): each value through its field's to_mongo, keyed
\* by the field's store name.
ToMongoDoc(attrs, doc, context) ==
    LET bad == { k \in DOMAIN doc \cap DOMAIN attrs : ToMongo(attrs[k], doc[k], context).err # "" }
    IN  IF Unrecognized(attrs, doc) # {}
        THEN [err |-> "UnrecognizedAttributeError", doc |-> NoDoc]
        ELSE IF bad # {}
        THEN [err |-> ToMongo(attrs[CHOOSE k \in bad : TRUE], Null, context).err,
              doc |-> NoDoc]
        ELSE [err |-> "",
              doc |-> [dn \in { GetDbname(attrs[k], k) : k \in DOMAIN doc } |->
                         LET k == CHOOSE k \in DOMAIN doc : GetDbname(attrs[k], k) = dn
                         IN  ToMongo(attrs[k], doc[k], context).val]]

\* _to_mongo(doc, dotransform=False): the values as they are, renamed.
ToMongoDocRaw(attrs, doc) ==
    IF Unrecognized(attrs, doc) # {}
    THEN [err |-> "UnrecognizedAttributeError", doc |-> NoDoc]
    ELSE [err |-> "",
          doc |-> [dn \in { GetDbname(attrs[k], k) : k \in DOMAIN doc } |->
                     doc[CHOOSE k \in DOMAIN doc : GetDbname(attrs[k], k) = dn]]]

\* _document_to_mongo
DocumentToMongo(attrs, doc) == ToMongoDoc(attrs, doc, "AUTO")

\* _query_to_mongo for plain (non-operator) values: to_mongo(value, 'NONE')
QueryToMongo(attrs, q) == ToMongoDoc(attrs, q, "NONE")

\* An update document is [op, fields]: op is the one top-level operator key
\* it holds ("$set", ...) or "" when its top-level keys are bare field names.
UpdateDoc(op, fields) == [op |-> op, fields |-> fields]

\* _update_to_mongo: the fields under $set/$unset through _to_mongo 'AUTO',
\* any other operator but the listed ones is unsupported, and a bare field
\* name is stored at the top level of the answer under its store name.
UpdateToMongoImplicitSet(attrs, upd) ==
    LET as == IF upd.op = "" THEN UpdateDoc("$set", upd.fields) ELSE upd
    IN  [err |-> ToMongoDoc(attrs, as.fields, "AUTO").err,
         doc |-> UpdateDoc(as.op, ToMongoDoc(attrs, as.fields, "AUTO").doc)]

UpdateToMongo(attrs, upd) ==
    LET under(context) ==
            LET tr == ToMongoDoc(attrs, upd.fields, context)
            IN  [err |-> tr.err, doc |-> UpdateDoc(upd.op, tr.doc)]
        raw == ToMongoDocRaw(attrs, upd.fields)
    IN  IF upd.op \in {"$set", "$unset"} THEN under("AUTO")
        ELSE IF upd.op \in {"$push", "$pull"} THEN under("ATOM")
        ELSE IF upd.op \in {"$pushAll", "$pullAll"} THEN under("LIST")
        ELSE IF upd.op \in {"$inc", "$pop"}
        THEN [err |-> raw.err, doc |-> UpdateDoc(upd.op, raw.doc)]
        ELSE IF upd.op # ""
        THEN [err |-> "UnsupportedMongodbOpError", doc |-> UpdateDoc(upd.op, NoDoc)]
        ELSE under("AUTO")

(***************************************************************************)
(* The document store (the collaborator of spec section 6): a collection   *)
(* in natural order and its index catalogue.  A unique index, the builtin  *)
(* one on _id included, rejects a write that would leave two documents     *)
(* with the same key values (an absent field counts as null).              *)
(***************************************************************************)
IndexEntry(name, keylist, unique) == [name |-> name, spec |-> keylist, unique |-> unique]

\* The name the store client derives from a key list ("y_1", "x_1_y_1").
GenName(keylist) == [kind |-> "gen", key |-> keylist]

\* "_id_", the name of the builtin index.
BuiltinName == [kind |-> "builtin", key |-> <<<<"_id", ASCENDING>>>>]

BuiltinIndex == IndexEntry(BuiltinName, <<<<"_id", ASCENDING>>>>, TRUE)

Matches(d, spec) ==
    \A k \in DOMAIN spec :
        IF spec[k] = Null THEN k \notin DOMAIN d \/ d[k] = Null
        ELSE k \in DOMAIN d /\ d[k] = spec[k]

MatchingPos(ds, spec) == { i \in DOMAIN ds : Matches(ds[i], spec) }

KeyTuple(d, ix) ==
    [i \in DOMAIN ix.spec |-> IF ix.spec[i][1] \in DOMAIN d THEN d[ix.spec[i][1]] ELSE Null]

Violates(ds, ixs) ==
    \E ix \in ixs :
        /\ ix.unique
        /\ \E i, j \in DOMAIN ds : i < j /\ KeyTuple(ds[i], ix) = KeyTuple(ds[j], ix)

\* insert(document) -> identifier: an absent _id is generated.
StoreInsert(ds, ixs, d, nid) ==
    LET d2 == IF "_id" \in DOMAIN d THEN d ELSE ("_id" :> Oid(nid)) @@ d
    IN  IF Violates(Append(ds, d2), ixs)
        THEN [err |-> "DuplicateKeyError", docs |-> ds, id |-> Null, nextId |-> nid]
        ELSE [err |-> "", docs |-> Append(ds, d2), id |-> d2["_id"],
              nextId |-> IF "_id" \in DOMAIN d THEN nid ELSE nid + 1]

\* The stored fields that hold arrays; every other field holds a number.
ArrayFields == {"tags"}

\* The array a field holds, the empty one when the document lacks the field.
ListOf(d, k) == IF k \in DOMAIN d THEN d[k] ELSE <<>>

\* One document under a store-native update: $set overrides fields, $unset
\* removes them, a document without operators replaces all but _id; $inc
\* adds to a number, $push and $pushAll append to an array, $pull and
\* $pullAll remove the equal items, $pop removes the last (1) or first item.
ApplyUpdate(d, native) ==
    CASE native.op = "$set" ->
            [k \in DOMAIN d \cup DOMAIN native.fields |->
                IF k \in DOMAIN native.fields THEN native.fields[k] ELSE d[k]]
      [] native.op = "$unset" ->
            [k \in DOMAIN d \ DOMAIN native.fields |-> d[k]]
      [] native.op = "" ->
            [k \in {"_id"} \cup DOMAIN native.fields |->
                IF k = "_id" THEN d["_id"] ELSE native.fields[k]]
      [] native.op = "$inc" ->
            [k \in DOMAIN d \cup DOMAIN native.fields |->
                IF k \notin DOMAIN native.fields THEN d[k]
                ELSE (IF k \in DOMAIN d THEN d[k] ELSE 0) + native.fields[k]]
      [] native.op \in {"$push", "$pushAll"} ->
            [k \in DOMAIN d \cup DOMAIN native.fields |->
                IF k \notin DOMAIN native.fields THEN d[k]
                ELSE IF native.op = "$push" THEN Append(ListOf(d, k), native.fields[k])
                ELSE ListOf(d, k) \o native.fields[k]]
      [] native.op \in {"$pull", "$pullAll", "$pop"} ->
            [k \in DOMAIN d |->
                IF k \notin DOMAIN native.fields THEN d[k]
                ELSE IF native.op = "$pull"
                THEN SelectSeq(d[k], LAMBDA e : e # native.fields[k])
                ELSE IF native.op = "$pullAll"
                THEN SelectSeq(d[k], LAMBDA e : e \notin Range(native.fields[k]))
                ELSE IF d[k] = <<>> THEN <<>>
                ELSE IF native.fields[k] = 1 THEN SubSeq(d[k], 1, Len(d[k]) - 1)
                ELSE Tail(d[k])]

\* The store refuses an array operator on a number and $inc on an array.
TypeMismatch(native) ==
    \E k \in DOMAIN native.fields :
        \/ native.op \in {"$push", "$pushAll", "$pull", "$pullAll", "$pop"} /\ k \notin ArrayFields
        \/ native.op = "$inc" /\ k \in ArrayFields

\* The store refuses an update that would change _id.
ChangesId(d, native) ==
    /\ native.op \in {"$set", ""}
    /\ "_id" \in DOMAIN native.fields
    /\ native.fields["_id"] # d["_id"]

\* The document an upsert inserts when nothing matches: the filter's fields
\* under the update, with a generated _id unless the filter names one.
UpsertDoc(spec, native, nid) ==
    LET base == IF native.op = "" THEN native.fields
                ELSE [k \in DOMAIN spec \cup DOMAIN native.fields |->
                        IF k \in DOMAIN native.fields /\ native.op = "$set"
                        THEN native.fields[k] ELSE spec[k]]
        withId == IF "_id" \in DOMAIN spec THEN ("_id" :> spec["_id"]) @@ base ELSE base
    IN  IF "_id" \in DOMAIN withId THEN withId ELSE ("_id" :> Oid(nid)) @@ withId

\* A multi update applies to the matching documents one after the other and
\* stops at the first the store rejects, keeping what it has applied.
RECURSIVE ApplyMulti(_, _, _, _, _)
ApplyMulti(ds, ixs, native, pos, n) ==
    IF pos = {} THEN [err |-> "", docs |-> ds, n |-> n]
    ELSE LET i == CHOOSE i \in pos : \A j \in pos : i <= j
             ds2 == [ds EXCEPT ![i] = ApplyUpdate(ds[i], native)]
         IN  IF ChangesId(ds[i], native) THEN [err |-> "OperationFailure", docs |-> ds, n |-> n]
             ELSE IF Violates(ds2, ixs) THEN [err |-> "DuplicateKeyError", docs |-> ds, n |-> n]
             ELSE ApplyMulti(ds2, ixs, native, pos \ {i}, n + 1)

\* update(filter, update_ops, multi, upsert) -> {n, updatedExisting}
StoreUpdate(ds, ixs, spec, native, multi, upsert, nid) ==
    LET pos == MatchingPos(ds, spec)
        first == CHOOSE i \in pos : \A j \in pos : i <= j
        one == [ds EXCEPT ![first] = ApplyUpdate(ds[first], native)]
        fresh == UpsertDoc(spec, native, nid)
        none == [err |-> "", docs |-> ds, n |-> 0, updatedExisting |-> FALSE, nextId |-> nid]
    IN  IF (multi /\ native.op = "") \/ TypeMismatch(native)
        THEN [none EXCEPT !.err = "OperationFailure"]
        ELSE IF pos = {}
        THEN IF ~upsert THEN none
             ELSE IF Violates(Append(ds, fresh), ixs)
             THEN [none EXCEPT !.err = "DuplicateKeyError"]
             ELSE [err |-> "", docs |-> Append(ds, fresh), n |-> 1,
                   updatedExisting |-> FALSE,
                   nextId |-> IF fresh["_id"] = Oid(nid) THEN nid + 1 ELSE nid]
        ELSE IF multi
        THEN LET r == ApplyMulti(ds, ixs, native, pos, 0)
             IN  [err |-> r.err, docs |-> r.docs, n |-> r.n,
                  updatedExisting |-> r.n > 0, nextId |-> nid]
        ELSE IF ChangesId(ds[first], native) THEN [none EXCEPT !.err = "OperationFailure"]
        ELSE IF Violates(one, ixs) THEN [none EXCEPT !.err = "DuplicateKeyError"]
        ELSE [err |-> "", docs |-> one, n |-> 1, updatedExisting |-> TRUE, nextId |-> nid]

\* remove(filter) -> {n}
StoreRemove(ds, spec) ==
    [docs |-> SelectSeq(ds, LAMBDA d : ~Matches(d, spec)),
     n |-> Cardinality(MatchingPos(ds, spec))]

\* find(filter): the matching documents in natural order
StoreFind(ds, spec) == SelectSeq(ds, LAMBDA d : Matches(d, spec))

(***************************************************************************)
(* The mapper (Document in document.py, Storage in new.py).  A handler's   *)
(* outcome is [result, ret, docs, nextId, calls]: result is "ok" or the    *)
(* name of the exception raised, calls the store primitives it issued.     *)
(***************************************************************************)
Outcome(res, r, ds, nid, cs) ==
    [result |-> res, ret |-> r, docs |-> ds, nextId |-> nid, calls |-> cs]

\* An exception raised before any store call.
Raised(err, ds, nid) == Outcome(err, Null, ds, nid, <<>>)

\* _insert: key.match(doc, unique=True) for every key whose head is not id;
\* Key.match raises AssertionError.
InsertUncovered(keys, doc) ==
    \E key \in KeySetEntries(keys) : KeyHead(key) # "id" /\ ~KeyMatch(key, doc, TRUE)

DoInsert(sch, ds, ixs, nid, doc) ==
    LET tr == DocumentToMongo(sch.attrs, doc)
        r == StoreInsert(ds, ixs, tr.doc, nid)
    IN  IF InsertUncovered(sch.keys, doc) THEN Raised("AssertionError", ds, nid)
        ELSE IF tr.err # "" THEN Raised(tr.err, ds, nid)
        ELSE IF r.err # "" THEN Outcome(r.err, Null, r.docs, r.nextId, <<"insert">>)
        ELSE Outcome("ok", OidStr(r.id), r.docs, r.nextId, <<"insert">>)

\* _update: if not multi and not result['updatedExisting']: raise
NotFoundAlways(multi, res) == ~res.updatedExisting

NotFound(multi, res) == ~multi /\ ~res.updatedExisting

DoUpdate(sch, ds, ixs, nid, q, upd, multi) ==
    LET m == KeySetMatch(sch.keys, q, ~multi)
        tq == QueryToMongo(sch.attrs, q)
        tu == UpdateToMongo(sch.attrs, upd)
        r == StoreUpdate(ds, ixs, tq.doc, tu.doc, multi, FALSE, nid)
    IN  IF m # "ok" THEN Raised(m, ds, nid)
        ELSE IF tq.err # "" THEN Raised(tq.err, ds, nid)
        ELSE IF tu.err # "" THEN Raised(tu.err, ds, nid)
        ELSE IF r.err # "" THEN Outcome(r.err, Null, r.docs, r.nextId, <<"update">>)
        ELSE IF NotFound(multi, r)
        THEN Outcome("DocumentNotFoundError", Null, r.docs, r.nextId, <<"update">>)
        ELSE Outcome("ok", r.n, r.docs, r.nextId, <<"update">>)

\* _upsert: return result['updatedExisting']
UpsertReturnCount(res) == res.n > 0

UpsertReturn(res) == res.updatedExisting

DoUpsert(sch, ds, ixs, nid, q, upd) ==
    LET m == KeySetMatch(sch.keys, q, TRUE)
        tq == QueryToMongo(sch.attrs, q)
        tu == UpdateToMongo(sch.attrs, upd)
        r == StoreUpdate(ds, ixs, tq.doc, tu.doc, FALSE, TRUE, nid)
    IN  IF m # "ok" THEN Raised(m, ds, nid)
        ELSE IF tq.err # "" THEN Raised(tq.err, ds, nid)
        ELSE IF tu.err # "" THEN Raised(tu.err, ds, nid)
        ELSE IF r.err # "" THEN Outcome(r.err, Null, r.docs, r.nextId, <<"update">>)
        ELSE Outcome("ok", UpsertReturn(r), r.docs, r.nextId, <<"update">>)

\* _remove
DoRemove(sch, ds, nid, q) ==
    LET m == KeySetMatch(sch.keys, q, FALSE)
        tq == QueryToMongo(sch.attrs, q)
        r == StoreRemove(ds, tq.doc)
    IN  IF m # "ok" THEN Raised(m, ds, nid)
        ELSE IF tq.err # "" THEN Raised(tq.err, ds, nid)
        ELSE Outcome("ok", r.n, r.docs, nid, <<"remove">>)

\* ReadOnlyDocument.__init__ / _extract: the entity view of a raw document.
\* expected is the projection, {} when none was given.
ExtractedNoKeys(sch, expected) ==
    { name \in DOMAIN sch.attrs : expected = {} \/ name \in expected }

Extracted(sch, expected) ==
    { name \in DOMAIN sch.attrs :
        name \in sch.keys.names \/ expected = {} \/ name \in expected }

Construct(sch, d, expected) ==
    [attrs |-> [name \in Extracted(sch, expected) |->
                  LET dn == GetDbname(sch.attrs[name], name)
                  IN  FromMongo(sch.attrs[name], IF dn \in DOMAIN d THEN d[dn] ELSE Null)],
     missing |-> DOMAIN sch.attrs \ Extracted(sch, expected)]

\* _find_as_cursor: if require_index: self._keys.match(query)
RequireIndexAlways(keys, q, requireIndex) == KeySetMatch(keys, q, FALSE)

RequireIndex(keys, q, requireIndex) ==
    IF requireIndex THEN KeySetMatch(keys, q, FALSE) ELSE "ok"

\* _find with no projection, skip, limit or sort
DoFind(sch, ds, nid, q, requireIndex) ==
    LET m == RequireIndex(sch.keys, q, requireIndex)
        tq == QueryToMongo(sch.attrs, q)
        found == StoreFind(ds, tq.doc)
    IN  IF m # "ok" THEN Outcome(m, <<>>, ds, nid, <<>>)
        ELSE IF tq.err # "" THEN Outcome(tq.err, <<>>, ds, nid, <<>>)
        ELSE Outcome("ok", [i \in DOMAIN found |-> Construct(sch, found[i], {})],
                     ds, nid, <<"find">>)

(***************************************************************************)
(* The mapper bound to one document class and one collection.              *)
(***************************************************************************)
\* class Doc(Document): _keys = [Key('y')]; _attributes = {x: Int, y: Int}
StoreClassBody == ClassBody(<<Key(<<Asc("y")>>)>>, ("x" :> IntF) @@ ("y" :> IntF))

StoreClass ==
    [keys |-> ComposeKeys(StoreClassBody, <<1>>, <<RootClass>>),
     attrs |-> ComposeAttrs(StoreClassBody, <<1>>, <<RootClass>>).dct]

\* The key lists create_indexes asks the store for: every key but the one
\* on id alone, each field under its store name.
KeyOrList(sch, key) ==
    [i \in DOMAIN key.index |->
        <<GetDbname(sch.attrs[key.index[i][1]], key.index[i][1]), key.index[i][2]>>]

DeclaredIndexes(sch) ==
    { IndexEntry(GenName(KeyOrList(sch, key)), KeyOrList(sch, key), key.unique) :
        key \in { k \in KeySetEntries(sch.keys) : KeyNames(k) # <<"id">> } }

InsertDocs ==
    { d \in UNION { [S -> Vals] : S \in SUBSET {"x", "y"} } : "x" \in DOMAIN d => d["x"] = 1 }

\* The identifier queried is the first one the collection handed out.
StoreQueries == { <<>>, "x" :> 1, "y" :> 1, "y" :> 2, "id" :> 1 }

UpdateDocs ==
    { UpdateDoc("$set", "x" :> 1), UpdateDoc("$set", "y" :> 2),
      UpdateDoc("", "x" :> 1), UpdateDoc("$rename", "x" :> 1) }

InitStore ==
    /\ schema = StoreClass
    /\ docs = <<>>
    /\ indexes \in { {BuiltinIndex}, {BuiltinIndex} \cup DeclaredIndexes(StoreClass) }
    /\ nextId = 1
    /\ calls = <<>>
    /\ flag = FALSE
    /\ ReconIdle
    /\ CodecIdle
    /\ query = NoQuery
    /\ result = "none"
    /\ ret = Null
    /\ lastOp = "init"
    /\ added = <<>>
    /\ kset = EmptyKeySet
    /\ uniq = FALSE
    /\ types = <<>>

Done(op, q, f, out) ==
    /\ lastOp' = op
    /\ query' = q
    /\ flag' = f
    /\ result' = out.result
    /\ ret' = out.ret
    /\ docs' = out.docs
    /\ nextId' = out.nextId
    /\ calls' = out.calls
    /\ UNCHANGED <<schema, indexes, added, kset, uniq, types, reconVars, codecVars>>

Insert ==
    \E doc \in InsertDocs :
        LET out == DoInsert(schema, docs, indexes, nextId, doc)
        IN  out.nextId <= MaxIds + 1 /\ Done("insert", doc, FALSE, out)

Update ==
    \E q \in StoreQueries, upd \in UpdateDocs, multi \in BOOLEAN :
        LET out == DoUpdate(schema, docs, indexes, nextId, q, upd, multi)
        IN  Done("update", q, multi, out)

Upsert ==
    \E q \in StoreQueries, upd \in UpdateDocs :
        LET out == DoUpsert(schema, docs, indexes, nextId, q, upd)
        IN  out.nextId <= MaxIds + 1 /\ Done("upsert", q, FALSE, out)

Remove ==
    \E q \in StoreQueries :
        LET out == DoRemove(schema, docs, nextId, q)
        IN  Done("remove", q, FALSE, out)

Find ==
    \E q \in StoreQueries, requireIndex \in BOOLEAN :
        LET out == DoFind(schema, docs, nextId, q, requireIndex)
        IN  Done("find", q, requireIndex, out)

NextStore == Insert \/ Update \/ Upsert \/ Remove \/ Find

SpecStore == InitStore /\ [][NextStore]_vars

(***************************************************************************)
(* Index reconciliation: create_indexes() (document.py:167-190,            *)
(* new.py:15-37), one store round trip per step.  The store's side of      *)
(* create_index, index_information and drop_index is the environment: a    *)
(* create_index that meets a live index of the same name or the same key   *)
(* list is a no-op when the store tolerates it and an OperationFailure     *)
(* when the store is strict; both kinds of store exist.                    *)
(***************************************************************************)
MaxRuns == 2

IndexClassBody ==
    ClassBody(<<Key(<<Asc("y")>>), Index(<<Desc("x")>>)>>, ("x" :> IntF) @@ ("y" :> IntF))

IndexClass ==
    [keys |-> ComposeKeys(IndexClassBody, <<1>>, <<RootClass>>),
     attrs |-> ComposeAttrs(IndexClassBody, <<1>>, <<RootClass>>).dct]

\* A name some other client gave to an index on a key list.
CustomName(keylist) == [kind |-> "custom", key |-> keylist]

\* The indexes a collection may hold besides the builtin one: the declared
\* ones, y_1 without uniqueness, y under another name, extraneous ones,
\* and a second index on _id alone (descending here; a hashed one is alike).
LiveUniverse ==
    { IndexEntry(GenName(<<<<"y", ASCENDING>>>>), <<<<"y", ASCENDING>>>>, TRUE),
      IndexEntry(GenName(<<<<"y", ASCENDING>>>>), <<<<"y", ASCENDING>>>>, FALSE),
      IndexEntry(CustomName(<<<<"y", ASCENDING>>>>), <<<<"y", ASCENDING>>>>, TRUE),
      IndexEntry(GenName(<<<<"x", DESCENDING>>>>), <<<<"x", DESCENDING>>>>, FALSE),
      IndexEntry(GenName(<<<<"x", ASCENDING>>>>), <<<<"x", ASCENDING>>>>, FALSE),
      IndexEntry(GenName(<<<<"y", ASCENDING>>, <<"x", ASCENDING>>>>),
                 <<<<"y", ASCENDING>>, <<"x", ASCENDING>>>>, TRUE),
      IndexEntry(GenName(<<<<"_id", DESCENDING>>>>), <<<<"_id", DESCENDING>>>>, FALSE) }

\* A store holds no two indexes of one name or of one key list.
Catalogues ==
    { {BuiltinIndex} \cup S : S \in
        { T \in SUBSET LiveUniverse :
            \A e, f \in T : (e.name = f.name \/ e.spec = f.spec) => e = f } }

\* collection.create_index(key_or_list, unique=...) -> name.  A unique
\* index is not built over documents that share its key values.
StoreCreateIndex(ixs, ds, keylist, unique, rejects) ==
    LET name == GenName(keylist)
        same == IndexEntry(name, keylist, unique)
        clash == { e \in ixs : e.name = name \/ e.spec = keylist }
    IN  IF clash = {}
        THEN IF Violates(ds, {same})
             THEN [err |-> "DuplicateKeyError", name |-> name, indexes |-> ixs]
             ELSE [err |-> "", name |-> name, indexes |-> ixs \cup {same}]
        ELSE IF clash = {same} \/ ~rejects
        THEN [err |-> "", name |-> name, indexes |-> ixs]
        ELSE [err |-> "OperationFailure", name |-> name, indexes |-> ixs]

\* collection.index_information(): the items (name, spec) of the mapping
StoreIndexInformation(ixs) == { <<e.name, e.spec>> : e \in ixs }

\* collection.drop_index(name)
StoreDropIndex(ixs, name) ==
    IF \E e \in ixs : e.name = name
    THEN [err |-> "", indexes |-> { e \in ixs : e.name # name }]
    ELSE [err |-> "OperationFailure", indexes |-> ixs]

\* for key in (key for key in cls._keys if key.names != ['id'])
Requested(sch) == SelectSeq(KeySetIter(sch.keys), LAMBDA k : KeyNames(k) # <<"id">>)

MissingNone(created, info) == {}

\* set(created) - set(indexes.keys())
Missing(created, info) == Range(created) \ { item[1] : item \in info }

\* name == '_id_' or (len(spec) == 1 and spec[0][0] == '_id')
IsBuiltin(name, spec) == name = BuiltinName \/ (Len(spec) = 1 /\ spec[1][1] = "_id")

DropUnlessBuiltin(name, spec, created) == ~IsBuiltin(name, spec)

\* the drop loop's test: not the builtin index, and name not in created
ShouldDrop(name, spec, created) == ~IsBuiltin(name, spec) /\ name \notin Range(created)

InitIndex ==
    /\ schema = IndexClass
    /\ docs = <<>>
    /\ indexes \in Catalogues
    /\ strict \in BOOLEAN
    /\ recon = NoRun
    /\ hist = <<>>
    /\ peer = NoRun
    /\ serial = TRUE
    /\ CodecIdle
    /\ nextId = 1
    /\ calls = <<>>
    /\ flag = FALSE
    /\ query = NoQuery
    /\ result = "none"
    /\ ret = Null
    /\ lastOp = "init"
    /\ added = <<>>
    /\ kset = EmptyKeySet
    /\ uniq = FALSE
    /\ types = <<>>

\* The run ends: it returned or it raised.
Finished(res, ixs) ==
    [result |-> res, created |-> recon.created, dropped |-> recon.dropped,
     before |-> recon.before, after |-> ixs]

RaiseIn(err) ==
    /\ recon' = [recon EXCEPT !.pc = "raised"]
    /\ result' = err
    /\ hist' = Append(hist, Finished(err, indexes))
    /\ UNCHANGED <<indexes, ret>>

Frame ==
    UNCHANGED <<keyVars, lastOp, types, schema, docs, nextId, flag, strict, peer, serial,
                codecVars>>

\* create_indexes() is called; no run is in progress.
Begin ==
    /\ recon.pc \in {"idle", "done", "raised"}
    /\ Len(hist) < MaxRuns
    /\ recon' = [pc |-> "create", todo |-> Requested(schema), created |-> <<>>,
                 pending |-> {}, dropped |-> <<>>, before |-> indexes]
    /\ result' = "none"
    /\ ret' = Null
    /\ calls' = <<>>
    /\ lastOp' = "create_indexes"
    /\ UNCHANGED <<keyVars, types, schema, docs, nextId, flag, strict, indexes, hist,
                   peer, serial, codecVars>>

\* One turn of the first loop: created.append(create_index(...)).
CreateIndex ==
    /\ recon.pc = "create" /\ recon.todo # <<>>
    /\ LET key == Head(recon.todo)
           r == StoreCreateIndex(indexes, docs, KeyOrList(schema, key), key.unique, strict)
       IN  /\ calls' = Append(calls, "create_index")
           /\ IF r.err # ""
              THEN RaiseIn(r.err)
              ELSE /\ recon' = [recon EXCEPT !.todo = Tail(@),
                                             !.created = Append(@, r.name)]
                   /\ indexes' = r.indexes
                   /\ UNCHANGED <<result, ret, hist>>
    /\ Frame

\* indexes = index_information(); raise CreateIndexError if any is missing.
ReadCatalogue ==
    /\ recon.pc = "create" /\ recon.todo = <<>>
    /\ LET info == StoreIndexInformation(indexes)
       IN  /\ calls' = Append(calls, "index_information")
           /\ IF Missing(recon.created, info) # {}
              THEN RaiseIn("CreateIndexError")
              ELSE /\ recon' = [recon EXCEPT !.pc = "drop", !.pending = info]
                   /\ UNCHANGED <<indexes, result, ret, hist>>
    /\ Frame

\* One turn of the second loop, in the mapping's iteration order.
Sweep ==
    /\ recon.pc = "drop"
    /\ \E item \in recon.pending :
          IF ShouldDrop(item[1], item[2], recon.created)
          THEN LET r == StoreDropIndex(indexes, item[1])
               IN  /\ calls' = Append(calls, "drop_index")
                   /\ IF r.err # ""
                      THEN RaiseIn(r.err)
                      ELSE /\ recon' = [recon EXCEPT !.pending = @ \ {item},
                                                     !.dropped = Append(@, item[1])]
                           /\ indexes' = r.indexes
                           /\ UNCHANGED <<result, ret, hist>>
          ELSE /\ recon' = [recon EXCEPT !.pending = @ \ {item}]
               /\ UNCHANGED <<indexes, calls, result, ret, hist>>
    /\ Frame

\* return (created, dropped)
Return ==
    /\ recon.pc = "drop" /\ recon.pending = {}
    /\ recon' = [recon EXCEPT !.pc = "done"]
    /\ result' = "ok"
    /\ ret' = <<recon.created, recon.dropped>>
    /\ hist' = Append(hist, Finished("ok", indexes))
    /\ UNCHANGED <<indexes, calls>>
    /\ Frame

NextIndex == Begin \/ CreateIndex \/ ReadCatalogue \/ Sweep \/ Return

SpecIndex == InitIndex /\ [][NextIndex]_vars

(***************************************************************************)
(* Reconciliation among other callers.  Two callers share the collection:  *)
(* each may run create_indexes() and insert.  recon is the run of the      *)
(* caller that is scheduled, peer the run of the other; a run is           *)
(* interrupted between two store round trips.  Callers that serialize      *)
(* reconciliation let no run start while another is in progress and        *)
(* insert only once a run has ended.                                       *)
(***************************************************************************)
Running(run) == run.pc \in {"create", "drop"}

\* The catalogues the callers find: the builtin index alone, with an index
\* no declaration asks for, or with the index on y of an earlier
\* declaration that was not unique.
RaceCatalogues ==
    { {BuiltinIndex},
      {BuiltinIndex, IndexEntry(GenName(<<<<"x", ASCENDING>>>>), <<<<"x", ASCENDING>>>>, FALSE)},
      {BuiltinIndex, IndexEntry(GenName(<<<<"y", ASCENDING>>>>), <<<<"y", ASCENDING>>>>, FALSE)} }

\* The callers insert documents with one value of the unique key y.
RaceDocs == { "y" :> 1 }

InitRace ==
    /\ schema = StoreClass
    /\ docs = <<>>
    /\ indexes \in RaceCatalogues
    /\ strict \in BOOLEAN
    /\ serial \in BOOLEAN
    /\ recon = NoRun
    /\ peer = NoRun
    /\ hist = <<>>
    /\ CodecIdle
    /\ nextId = 1
    /\ calls = <<>>
    /\ flag = FALSE
    /\ query = NoQuery
    /\ result = "none"
    /\ ret = Null
    /\ lastOp = "init"
    /\ added = <<>>
    /\ kset = EmptyKeySet
    /\ uniq = FALSE
    /\ types = <<>>

\* The other caller is scheduled.
Switch ==
    /\ serial => ~Running(recon)
    /\ recon # peer
    /\ recon' = peer
    /\ peer' = recon
    /\ UNCHANGED <<keyVars, result, ret, lastOp, types, schema, docs, indexes, nextId,
                   calls, flag, hist, strict, serial, codecVars>>

\* create_indexes() is called by the scheduled caller.
RaceBegin ==
    /\ Len(hist) + (IF Running(peer) THEN 1 ELSE 0) < MaxRuns
    /\ Begin

\* cls._insert(doc) by the scheduled caller
RaceInsert ==
    /\ serial => (hist # <<>> /\ ~Running(recon))
    /\ \E doc \in RaceDocs :
          \E out \in {DoInsert(schema, docs, indexes, nextId, doc)} :
              out.nextId <= MaxIds + 1 /\ Done("insert", doc, FALSE, out)

NextRace == RaceBegin \/ CreateIndex \/ ReadCatalogue \/ Sweep \/ Return \/ Switch \/ RaceInsert

SpecRace == InitRace /\ [][NextRace]_vars

(***************************************************************************)
(* The codecs applied to values of their own: a value is encoded with      *)
(* to_mongo, a stored value decoded with from_mongo, in any order.         *)
(***************************************************************************)
MaxList == 3

MaxStored == 2

MaxOps == 2

\* The items of a list value: the enum's and one outside the enum.
Items == Range(Enum) \cup {"z"}

\* What a stored Int field may hold: null, numbers, an ObjectId, strings
\* with and without digits, a list, a nested mapping.
RawInts == {Null, 0, 1, 2, Oid(1), NumStr(2), Word, ListRaw, DictRaw}

PyValues(ft) == IF ft.kind = "Int" THEN {Null, 0, 1} ELSE SeqsUpTo(Items, MaxList)

DbValues(ft) == IF ft.kind = "Int" THEN RawInts ELSE SeqsUpTo(Items, MaxStored)

CodecFields == {EnumSetF, IntF}

InitCodec ==
    /\ \E ft \in CodecFields :
          /\ ftype = ft
          /\ pyval \in PyValues(ft)
          /\ dbval \in DbValues(ft)
    /\ calls = <<>>
    /\ result = "none"
    /\ lastOp = "init"
    /\ ret = Null
    /\ schema = <<>>
    /\ docs = <<>>
    /\ indexes = {}
    /\ nextId = 1
    /\ flag = FALSE
    /\ ReconIdle
    /\ query = NoQuery
    /\ added = <<>>
    /\ kset = EmptyKeySet
    /\ uniq = FALSE
    /\ types = <<>>

CodecFrame ==
    UNCHANGED <<keyVars, types, ret, schema, docs, indexes, nextId, flag, reconVars, ftype>>

\* fieldtype.to_mongo(value)
CodecToMongo ==
    /\ Len(calls) < MaxOps
    /\ LET out == ToMongo(ftype, pyval, "AUTO")
       IN  /\ result' = IF out.err = "" THEN "ok" ELSE out.err
           /\ dbval' = IF out.err = "" THEN out.val ELSE dbval
    /\ calls' = Append(calls, "to_mongo")
    /\ lastOp' = "to_mongo"
    /\ UNCHANGED pyval
    /\ CodecFrame

\* fieldtype.from_mongo(value)
CodecFromMongo ==
    /\ Len(calls) < MaxOps
    /\ pyval' = FromMongo(ftype, dbval)
    /\ result' = "ok"
    /\ calls' = Append(calls, "from_mongo")
    /\ lastOp' = "from_mongo"
    /\ UNCHANGED dbval
    /\ CodecFrame

NextCodec == CodecToMongo \/ CodecFromMongo

SpecCodec == InitCodec /\ [][NextCodec]_vars

(***************************************************************************)
(* Entity views (ReadOnlyDocument.__init__, _extract, __getattr__;         *)
(* NewDocument in new.py) and _find_one with a projection.  The class has  *)
(* a unique key on y, which is stored under the alias yy, and two plain    *)
(* fields.  A view is [data, expected, attrs, missing]: the raw document,  *)
(* the projection, the attributes that were set and the names in _missing. *)
(***************************************************************************)
ViewClassBody ==
    ClassBody(<<Key(<<Asc("y")>>)>>,
              ("x" :> IntF) @@ ("w" :> IntF) @@ ("y" :> FieldType("Int", "yy")))

ViewClass ==
    [keys |-> ComposeKeys(ViewClassBody, <<1>>, <<RootClass>>),
     attrs |-> ComposeAttrs(ViewClassBody, <<1>>, <<RootClass>>).dct]

\* The raw documents of the collection: _id and any of x, w, yy.
RawDocs ==
    { ("_id" :> Oid(1)) @@ d :
        d \in { e \in UNION { [S -> Vals] : S \in SUBSET {"x", "w", "yy"} } :
                  "w" \in DOMAIN e => e["w"] = 1 } }

\* fields: no projection (None or empty) is {}.
Projections == SUBSET {"x", "w", "y"}

NoView == [data |-> NoDoc, expected |-> {}, attrs |-> <<>>, missing |-> {}]

\* cls(doc, fields)
View(sch, d, expected) ==
    [data |-> d, expected |-> expected,
     attrs |-> Construct(sch, d, expected).attrs,
     missing |-> Construct(sch, d, expected).missing]

\* _add_key_fields: list(set(fields).union(cls._keys.names)), None if not fields
AddKeyFields(keys, fields) == IF fields = {} THEN {} ELSE fields \cup keys.names

\* The store's projection: the selected fields the document has, and _id.
Project(d, proj) ==
    IF proj = {} THEN d
    ELSE [k \in { f \in DOMAIN d : f \in proj \/ f = "_id" } |-> d[k]]

\* collection.find_one(spec, fields): the first match projected, else None
StoreFindOne(ds, spec, proj) ==
    IF MatchingPos(ds, spec) = {} THEN NoDoc
    ELSE Project(ds[CHOOSE i \in MatchingPos(ds, spec) :
                        \A j \in MatchingPos(ds, spec) : i <= j], proj)

\* _find_one(query, fields)
DoFindOne(sch, ds, nid, q, fields) ==
    LET m == KeySetMatch(sch.keys, q, TRUE)
        tq == QueryToMongo(sch.attrs, q)
        proj == AddKeyFields(sch.keys, fields)
        doc == StoreFindOne(ds, tq.doc, proj)
    IN  IF m # "ok" THEN Outcome(m, NoView, ds, nid, <<>>)
        ELSE IF tq.err # "" THEN Outcome(tq.err, NoView, ds, nid, <<>>)
        ELSE IF doc = NoDoc THEN Outcome("None", NoView, ds, nid, <<"find_one">>)
        ELSE Outcome("ok", View(sch, doc, proj), ds, nid, <<"find_one">>)

\* __getattr__ runs when the attribute was not set: [err, val]
GetAttr(view, name) ==
    IF name \in DOMAIN view.attrs THEN [err |-> "", val |-> view.attrs[name]]
    ELSE IF name \in view.missing THEN [err |-> "MissingAttributeError", val |-> Null]
    ELSE [err |-> "AttributeError", val |-> Null]

ViewQueries == { "y" :> 1, "y" :> 0, "id" :> 1 }

InitView ==
    /\ schema = ViewClass
    /\ docs \in { <<d>> : d \in RawDocs }
    /\ indexes = {BuiltinIndex} \cup DeclaredIndexes(ViewClass)
    /\ ret = NoView
    /\ nextId = 2
    /\ calls = <<>>
    /\ flag = {}
    /\ query = NoQuery
    /\ result = "none"
    /\ lastOp = "init"
    /\ ReconIdle
    /\ CodecIdle
    /\ added = <<>>
    /\ kset = EmptyKeySet
    /\ uniq = FALSE
    /\ types = <<>>

ViewFrame ==
    UNCHANGED <<schema, docs, indexes, nextId, added, kset, uniq, types, reconVars,
                ftype, dbval>>

\* cls._construct(doc, fields) on the raw document as it is stored
BuildView ==
    \E fields \in Projections :
        /\ ret' = View(schema, docs[1], fields)
        /\ result' = "ok"
        /\ lastOp' = "construct"
        /\ flag' = fields
        /\ query' = NoQuery
        /\ calls' = <<>>
        /\ UNCHANGED pyval
        /\ ViewFrame

FindOne ==
    \E q \in ViewQueries, fields \in Projections :
        LET out == DoFindOne(schema, docs, nextId, q, fields)
        IN  /\ ret' = out.ret
            /\ result' = out.result
            /\ calls' = out.calls
            /\ lastOp' = "find_one"
            /\ flag' = fields
            /\ query' = q
            /\ UNCHANGED pyval
            /\ ViewFrame

\* entity.name on the view at hand
Access ==
    /\ ret # NoView
    /\ \E name \in DOMAIN schema.attrs :
          /\ result' = IF GetAttr(ret, name).err = "" THEN "ok" ELSE GetAttr(ret, name).err
          /\ pyval' = GetAttr(ret, name).val
          /\ flag' = name
    /\ lastOp' = "getattr"
    /\ UNCHANGED <<ret, query, calls>>
    /\ ViewFrame

\* The keyword arguments of update_one / set_one.
Kwargs == { "x" :> 2, "w" :> 1, "y" :> 2 }

\* A write: the view read before it is followed no further.
Written(op, q, kw, out) ==
    /\ docs' = out.docs
    /\ ret' = NoView
    /\ result' = out.result
    /\ pyval' = out.ret
    /\ calls' = out.calls
    /\ lastOp' = op
    /\ query' = q
    /\ flag' = kw
    /\ UNCHANGED <<schema, indexes, nextId, added, kset, uniq, types, reconVars,
                   ftype, dbval>>

\* SimpleStorage.update_one(query, **kwargs): _update(query, kwargs, multi=False)
UpdateOne ==
    \E q \in ViewQueries, kw \in Kwargs :
        Written("update_one", q, kw,
                DoUpdate(schema, docs, indexes, nextId, q, UpdateDoc("", kw), FALSE))

\* SimpleStorage.set_one(query, **kwargs): _update(query, {'$set': kwargs}, multi=False)
SetOne ==
    \E q \in ViewQueries, kw \in Kwargs :
        Written("set_one", q, kw,
                DoUpdate(schema, docs, indexes, nextId, q, UpdateDoc("$set", kw), FALSE))

NextView == BuildView \/ FindOne \/ Access \/ UpdateOne \/ SetOne

SpecView == InitView /\ [][NextView]_vars

(***************************************************************************)
(* Update translation.  A class with a scalar attribute n (IntField) and a *)
(* collection attribute tags (EnumSetField) over one stored document;      *)
(* _update(query, {op: {name: value}}) with every operator of              *)
(* _update_to_mongo and one it does not know.  flag holds the update as    *)
(* the caller gave it, dbval the update document the store received.       *)
(***************************************************************************)
MaxCount == 3

TagClassBody == ClassBody(<<>>, ("n" :> IntF) @@ ("tags" :> EnumSetF))

TagClass ==
    [keys |-> ComposeKeys(TagClassBody, <<1>>, <<RootClass>>),
     attrs |-> ComposeAttrs(TagClassBody, <<1>>, <<RootClass>>).dct]

UpdateOps ==
    {"$set", "$unset", "$push", "$pull", "$pushAll", "$pullAll", "$inc", "$pop", "$rename"}

\* The list arguments of $set, $unset, $pushAll and $pullAll on tags.
TagLists == { <<>>, <<"g">>, <<"z", "r">>, <<"g", "g", "b">>, <<"r", "g", "b">> }

\* The update document the store received, <<>> when it received none.
NothingSent == <<>>

InitTranslate ==
    /\ schema = TagClass
    /\ docs = << ("_id" :> Oid(1)) @@ ("n" :> 1) @@ ("tags" :> <<"r">>) >>
    /\ indexes = {BuiltinIndex}
    /\ ret = Null
    /\ nextId = 2
    /\ calls = <<>>
    /\ flag = UpdateDoc("", NoDoc)
    /\ query = NoQuery
    /\ result = "none"
    /\ lastOp = "init"
    /\ ReconIdle
    /\ ftype = "none"
    /\ pyval = Null
    /\ dbval = NothingSent
    /\ added = <<>>
    /\ kset = EmptyKeySet
    /\ uniq = FALSE
    /\ types = <<>>

\* The stored values stay within the bounds.
WithinBounds(ds) ==
    \A i \in DOMAIN ds :
        /\ "n" \in DOMAIN ds[i] => ds[i]["n"] \in 0..MaxCount
        /\ "tags" \in DOMAIN ds[i] => Len(ds[i]["tags"]) <= MaxStored

\* cls._update(query, doc): the update document is built, as an argument
\* of collection.update, before the store is called.
Translated(q, upd) ==
    \E out \in {DoUpdate(schema, docs, indexes, nextId, q, upd, FALSE)},
       tu \in {UpdateToMongo(schema.attrs, upd)} :
        /\ WithinBounds(out.docs)
        /\ docs' = out.docs
        /\ result' = out.result
        /\ pyval' = out.ret
        /\ calls' = out.calls
        /\ dbval' = IF out.calls = <<>> THEN NothingSent ELSE tu.doc
        /\ lastOp' = "update"
        /\ query' = q
        /\ flag' = upd
        /\ UNCHANGED <<schema, indexes, nextId, ret, added, kset, uniq, types,
                       reconVars, ftype>>

\* _update with a number as the value: any operator on n, the untransformed
\* and the unknown ones on tags.
UpdateNumber ==
    \E op \in UpdateOps, name \in {"n", "tags"}, v \in Vals :
        /\ name = "tags" => op \in {"$inc", "$pop", "$rename"}
        /\ Translated("id" :> 1, UpdateDoc(op, name :> v))

\* _update appending or removing one item of tags
UpdateItem ==
    \E op \in {"$push", "$pull"}, item \in Items :
        Translated("id" :> 1, UpdateDoc(op, "tags" :> item))

\* _update with a list as the value of tags
UpdateList ==
    \E op \in {"$set", "$unset", "$pushAll", "$pullAll"}, items \in TagLists :
        Translated("id" :> 1, UpdateDoc(op, "tags" :> items))

NextTranslate == UpdateNumber \/ UpdateItem \/ UpdateList

SpecTranslate == InitTranslate /\ [][NextTranslate]_vars

(***************************************************************************)
(* Properties of the key set.                                              *)
(***************************************************************************)
QueryNames == DOMAIN query

\* The declarations the key set kept: one structurally equal to an earlier
\* one is dropped, whatever its uniqueness.
Kept(seq) == { seq[i] : i \in { j \in DOMAIN seq : \A h \in 1..(j - 1) : seq[h].index # seq[j].index } }

\* C1 as stated: match(query, unique=true) succeeds iff the query's field
\* names are a superset of the field set of some declared key (Key or Index),
\* and raises KeyMatchError otherwise.
C1_AsStated ==
    (lastOp = "match" /\ uniq) =>
        /\ result \in {"ok", "KeyMatchError"}
        /\ (result = "ok") <=>
              \E d \in Range(added) : Range(KeyNames(d)) \subseteq QueryNames

\* C1 amended: match(query, unique=true) succeeds iff, among the entries the
\* key set kept, the query's field names are a superset of the field set of
\* some unique Key or contain the head of some non-unique Index; otherwise it
\* raises KeyMatchError.
C1_MatchUnique ==
    (lastOp = "match" /\ uniq) =>
        /\ result \in {"ok", "KeyMatchError"}
        /\ (result = "ok") <=>
              \E d \in Kept(added) :
                  IF d.unique THEN Range(KeyNames(d)) \subseteq QueryNames
                  ELSE KeyHead(d) \in QueryNames

\* A unique match that succeeded through a non-unique Index although no
\* declared key has all its fields in the query.
C1_Witness ==
    /\ lastOp = "match" /\ uniq /\ result = "ok"
    /\ ~ \E d \in Range(added) : Range(KeyNames(d)) \subseteq QueryNames

\* C2: match(query, unique=false) succeeds iff some field name of the query
\* is the head of a declared key, and raises KeyMatchError otherwise; on
\* success it returns the query and leaves the key set as it was.
C2_MatchHead ==
    [][ (lastOp' = "match" /\ ~uniq') =>
            /\ result' \in {"ok", "KeyMatchError"}
            /\ (result' = "ok") <=> \E d \in Range(added') : KeyHead(d) \in DOMAIN query'
            /\ (result' = "ok") => (ret' = query' /\ kset' = kset /\ added' = added)
      ]_vars

\* A non-unique match that succeeded on the head of a two-field Key whose
\* second field the query lacks.
C2_Witness ==
    /\ lastOp = "match" /\ ~uniq /\ result = "ok" /\ ret = query
    /\ \E d \in Range(added) :
          /\ d.unique /\ Len(d.index) = 2
          /\ KeyHead(d) \in QueryNames /\ KeyNames(d)[2] \notin QueryNames
    /\ "id" \notin QueryNames

\* C9 as stated: every key set holds exactly one entry on the identifier
\* field alone, and that entry is a unique Key.
C9_AsStated ==
    LET it == KeySetIter(kset)
        ids == { i \in DOMAIN it : KeyNames(it[i]) = <<"id">> }
    IN  /\ Cardinality(ids) = 1
        /\ \A i \in ids : it[i].unique
(***************************************************************************)
(* Properties of schema composition.                                       *)
(***************************************************************************)
\* Every field name a class declares itself or inherits, by its bases.
RECURSIVE DeclaredNames(_, _)
DeclaredNames(ts, i) ==
    {"id"} \cup DOMAIN ts[i].body.attrs
           \cup UNION { DeclaredNames(ts, ts[i].bases[b]) : b \in DOMAIN ts[i].bases }

NoEqualEntries(ks) ==
    \A i, j \in DOMAIN KeySetIter(ks) :
        i # j => KeySetIter(ks)[i].index # KeySetIter(ks)[j].index

ExampleBody == ClassBody(<<Key(<<Asc("y")>>)>>, "x" :> IntF)

\* A class made of ExampleBody on one base whose only key is the id key.
IsExample(ts, i) ==
    /\ ts[i].body = ExampleBody
    /\ Len(ts[i].bases) = 1
    /\ KeySetIter(ts[ts[i].bases[1]].keys) = <<IdKey>>

ComposedWell(ts) ==
    \A i \in DOMAIN ts :
        /\ NoEqualEntries(ts[i].keys)
        /\ DOMAIN ts[i].attrs = DeclaredNames(ts, i)
        /\ \A n \in DOMAIN ts[i].body.attrs : ts[i].attrs[n] = ts[i].body.attrs[n]
        /\ IsExample(ts, i) =>
              /\ Len(KeySetIter(ts[i].keys)) = 2
              /\ KeySetEntries(ts[i].keys) = {IdKey, Key(<<Asc("y")>>)}

\* C10: every composed class has a key set without two structurally equal
\* entries and an attribute schema of exactly its own fields, the inherited
\* fields and the identifier field; the example subtype (field x, unique key
\* on y, base with the id key only) has exactly the keys id and y; and
\* composing a class leaves every class composed before as it was.
C10_Composition ==
    /\ []ComposedWell(types)
    /\ [][\A i \in DOMAIN types : i \in DOMAIN types' /\ types'[i] = types[i]]_vars

\* The example subtype composed on the root class, and a further subtype of
\* it that redeclares the key on y, so that the merge met an equal entry.
C10_Witness ==
    \E i, j \in DOMAIN types :
        /\ IsExample(types, i)
        /\ types[i].bases = <<1>>
        /\ DOMAIN types[i].attrs = {"id", "x"}
        /\ types[j].bases = <<i>>
        /\ types[j].body.keys = <<Index(<<Asc("y")>>)>>
        /\ DOMAIN types[j].attrs = {"id", "x", "y"}
(***************************************************************************)
(* Properties of the mapper operations.                                    *)
(***************************************************************************)
\* The declarations of the bound class, the automatic id key included.
StoreDeclared == Range(StoreClassBody.keys) \cup {IdKey}

\* A stored document satisfies a query: each queried field is stored, under
\* its store name, with the queried value (the identifier as an ObjectId).
QMatches(d, q) ==
    \A f \in DOMAIN q :
        IF f = "id" THEN d["_id"] = Oid(q[f])
        ELSE f \in DOMAIN d /\ d[f] = q[f]

QMatching(ds, q) == { i \in DOMAIN ds : QMatches(ds[i], q) }

\* The query has every field of some declared unique key.
UniquelyCovered(q) ==
    \E k \in StoreDeclared : k.unique /\ Range(KeyNames(k)) \subseteq DOMAIN q

\* Some field of the query is the head of a declared key.
HeadCovered(q) == \E k \in StoreDeclared : KeyHead(k) \in DOMAIN q

TranslationErrors ==
    { "UnsupportedMongodbOpError", "UnrecognizedAttributeError",
      "ScalarUsedInVectorTransformContextError", "InvalidTransformContextError" }

\* C3 as stated: insert of a document that lacks a field of a declared
\* non-identifier unique key raises KeyMatchError and issues no store call.
C3_AsStated ==
    (/\ lastOp = "insert"
     /\ \E k \in StoreDeclared :
           /\ k.unique /\ KeyNames(k) # <<"id">>
           /\ ~(Range(KeyNames(k)) \subseteq DOMAIN query))
    => (result = "KeyMatchError" /\ calls = <<>>)

\* C4 as stated: a covered update with multi=false raises
\* DocumentNotFoundError and changes nothing when no stored document matches,
\* and when one or more match it writes exactly one document and returns
\* without error; with multi=true and no match it returns 0 without error.
C4_AsStated ==
    [][ (/\ lastOp' = "update"
         /\ IF flag' THEN HeadCovered(query') ELSE UniquelyCovered(query')
         /\ result' \notin TranslationErrors)
        => LET m == QMatching(docs, query')
           IN  /\ (~flag' /\ m = {}) =>
                     (result' = "DocumentNotFoundError" /\ docs' = docs)
               /\ (~flag' /\ m # {}) =>
                     /\ result' = "ok"
                     /\ Len(docs') = Len(docs)
                     /\ \E i \in m : \A j \in DOMAIN docs : j # i => docs'[j] = docs[j]
               /\ (flag' /\ m = {}) => (result' = "ok" /\ ret' = 0)
      ]_vars

\* C4, with the store's verdict on the write taken into account: for an
\* update whose query is covered and whose update document the
\* translation accepts, with multi=false: no stored document matching means
\* DocumentNotFoundError and an unchanged collection; one or more matching
\* means no not-found error, and when the store accepts the write exactly one
\* document, a matching one, is written and 1 is returned.  With multi=true
\* no match is not an error: 0 is returned and nothing changes.
C4_Update ==
    [][ (/\ lastOp' = "update"
         /\ IF flag' THEN HeadCovered(query') ELSE UniquelyCovered(query')
         /\ result' \notin TranslationErrors)
        => LET m == QMatching(docs, query')
           IN  /\ calls' = <<"update">>
               /\ (~flag' /\ m = {}) =>
                     (result' = "DocumentNotFoundError" /\ docs' = docs)
               /\ (~flag' /\ m # {}) =>
                     /\ result' \in {"ok", "DuplicateKeyError"}
                     /\ result' = "ok" =>
                           /\ ret' = 1
                           /\ Len(docs') = Len(docs)
                           /\ \E i \in m : \A j \in DOMAIN docs : j # i => docs'[j] = docs[j]
                     /\ result' # "ok" => docs' = docs
               /\ (flag' /\ m = {}) =>
                     /\ result' \in {"ok", "OperationFailure"}
                     /\ result' = "ok" => ret' = 0
                     /\ docs' = docs
      ]_vars

\* A single update found nothing in a collection of two documents.
C4_Witness ==
    /\ lastOp = "update" /\ ~flag /\ result = "DocumentNotFoundError"
    /\ Len(docs) = 2 /\ "y" \in DOMAIN query

\* C5: an upsert with a uniquely covered query that returns, returns true
\* exactly when a stored document matched the query, and then every document
\* keeps its identifier and the collection its size; it returns false exactly
\* when none matched, and then the collection holds the documents it held and
\* one new document whose identifier no stored document had.
C5_Upsert ==
    [][ (lastOp' = "upsert" /\ UniquelyCovered(query'))
        => LET m == QMatching(docs, query')
           IN  /\ result' # "KeyMatchError"
               /\ result' # "ok" => docs' = docs
               /\ result' = "ok" =>
                     /\ calls' = <<"update">>
                     /\ ret' = (m # {})
                     /\ m # {} =>
                           /\ Len(docs') = Len(docs)
                           /\ \A i \in DOMAIN docs : docs'[i]["_id"] = docs[i]["_id"]
                     /\ m = {} =>
                           /\ Len(docs') = Len(docs) + 1
                           /\ \A i \in DOMAIN docs : docs'[i] = docs[i]
                           /\ \A i \in DOMAIN docs : docs[i]["_id"] # docs'[Len(docs')]["_id"]
      ]_vars

\* An upsert that matched nothing added a second document.
C5_Witness ==
    /\ lastOp = "upsert" /\ result = "ok" /\ ret = FALSE
    /\ Len(docs) = 2 /\ docs[1]["_id"] # docs[2]["_id"]

\* The entity view of a stored document of the bound class, no projection.
EntityOf(d) ==
    [attrs |-> [n \in {"id", "x", "y"} |->
                  IF n = "id" THEN d["_id"] - 100
                  ELSE IF n \in DOMAIN d THEN d[n] ELSE 0],
     missing |-> {}]

\* C6: find with require_index=true on a query none of whose fields is the
\* head of a declared key raises KeyMatchError and issues no store read; with
\* require_index=false a query on declared fields reads the store and returns
\* the entity views of the matching documents.
C6_Find ==
    lastOp = "find" =>
        /\ (flag /\ ~HeadCovered(query)) => (result = "KeyMatchError" /\ calls = <<>>)
        /\ ~flag =>
              /\ result = "ok"
              /\ calls = <<"find">>
              /\ LET found == SelectSeq(docs, LAMBDA d : QMatches(d, query))
                 IN  ret = [i \in DOMAIN found |-> EntityOf(found[i])]

\* A find on the unindexed field x, allowed by require_index=false,
\* returned a stored document.
C6_Witness ==
    /\ lastOp = "find" /\ ~flag /\ result = "ok"
    /\ DOMAIN query = {"x"} /\ Len(ret) >= 1
(***************************************************************************)
(* Properties of index reconciliation.                                     *)
(***************************************************************************)
\* C7 as stated: a create_indexes() run that returned leaves the live
\* catalogue equal to the declared non-identifier indexes, each with its
\* declared uniqueness, plus the builtin index.
C7_AsStated ==
    recon.pc = "done" => indexes = {BuiltinIndex} \cup DeclaredIndexes(schema)

\* C8: after a run that returned, with the declarations as they were and
\* nothing else touching the store, the next run changes the catalogue at
\* no step, ends with the catalogue the earlier run left, and returns an
\* empty dropped list.
C8_SecondRun ==
    /\ [](\A i \in 2..Len(hist) :
            hist[i-1].result = "ok" =>
                /\ hist[i].before = hist[i-1].after
                /\ hist[i].after = hist[i-1].after
                /\ hist[i].result = "ok" => hist[i].dropped = <<>>)
    /\ [][ (hist # <<>> /\ hist[Len(hist)].result = "ok") => indexes' = indexes ]_vars

\* The first run created an index and dropped one; the second returned.
C8_Witness ==
    /\ Len(hist) = 2
    /\ hist[1].result = "ok" /\ hist[2].result = "ok"
    /\ hist[1].dropped # <<>>
    /\ ~(hist[1].before \subseteq hist[1].after)
    /\ ~(hist[1].after \subseteq hist[1].before)
\* The classes a class inherits from through a base: the base and, through
\* its bases, every ancestor of it.
RECURSIVE Ancestors(_, _)
Ancestors(ts, i) ==
    {i} \cup UNION { Ancestors(ts, ts[i].bases[k]) : k \in DOMAIN ts[i].bases }

Lineage(ts, bases) == UNION { Ancestors(ts, bases[k]) : k \in DOMAIN bases }

\* Some field other than id is declared by the class body and by an
\* ancestor, or by two different ancestors.
DeclaredTwice(ts, body, bases) ==
    \E n \in Fields \ {"id"} :
        \/ /\ n \in DOMAIN body.attrs
           /\ \E i \in Lineage(ts, bases) : n \in DOMAIN ts[i].body.attrs
        \/ \E i, j \in Lineage(ts, bases) :
              /\ i # j
              /\ n \in DOMAIN ts[i].body.attrs
              /\ n \in DOMAIN ts[j].body.attrs

\* C11 as stated: composing a class raises the declaration error exactly
\* when some field other than the identifier is declared twice by different
\* types of its lineage (never otherwise, two bases with a common ancestor
\* included); a composed class keeps its own identifier field.
C11_AsStated ==
    lastOp = "compose" =>
        /\ (result = "AssertionError") = DeclaredTwice(types, ret.body, ret.bases)
        /\ result = "ok" =>
              types[Len(types)].attrs["id"] =
                  IF "id" \in DOMAIN ret.body.attrs THEN ret.body.attrs["id"] ELSE ObjectIdF
(***************************************************************************)
(* Properties of the codecs.                                               *)
(***************************************************************************)
\* A list that names a set of enum items: items of the enum, none twice.
IsSubsetList(value) ==
    /\ Range(value) \subseteq Range(Enum)
    /\ \A i, j \in DOMAIN value : value[i] = value[j] => i = j

\* The items of a list in the enum's order.
Canonical(value) == SelectSeq(Enum, LAMBDA item : item \in Range(value))

\* The step decodes what the step before encoded from pyval.
RoundTrip == lastOp = "to_mongo" /\ calls' = Append(calls, "from_mongo")

\* C12 as stated: the full set encodes to the empty list, the empty list
\* decodes to the full set, and every proper subset, the empty one
\* included, decodes from its encoding to itself in the enum's order.
C12_AsStated ==
    [][ ftype.kind = "EnumSet" =>
          /\ (lastOp' = "to_mongo" /\ calls' # calls /\ IsSubsetList(pyval)
                 /\ Range(pyval) = Range(Enum)) => dbval' = <<>>
          /\ (lastOp' = "from_mongo" /\ calls' # calls /\ dbval = <<>>) => pyval' = Enum
          /\ (RoundTrip /\ IsSubsetList(pyval) /\ Range(pyval) # Range(Enum))
                => pyval' = Canonical(pyval)
      ]_vars

\* C12 for the sets the encoding can tell apart: the full set encodes to the
\* empty list, the empty list decodes to the full set, every NON-EMPTY
\* proper subset decodes from its encoding to itself in the enum's order,
\* and the empty subset decodes from its encoding to the full set.
C12_RoundTrip ==
    [][ ftype.kind = "EnumSet" =>
          /\ (lastOp' = "to_mongo" /\ calls' # calls /\ IsSubsetList(pyval)
                 /\ Range(pyval) = Range(Enum)) => dbval' = <<>>
          /\ (lastOp' = "from_mongo" /\ calls' # calls /\ dbval = <<>>) => pyval' = Enum
          /\ (RoundTrip /\ IsSubsetList(pyval) /\ Range(pyval) # Range(Enum)
                 /\ pyval # <<>>) => pyval' = Canonical(pyval)
          /\ (RoundTrip /\ pyval = <<>>) => pyval' = Enum
      ]_vars

\* A two-item subset given against the enum's order was encoded as given
\* and decoded in the enum's order.
C12_Witness ==
    /\ ftype = EnumSetF
    /\ calls = <<"to_mongo", "from_mongo">>
    /\ dbval = <<"b", "r">>
    /\ pyval = <<"r", "b">>
(***************************************************************************)
(* Properties of entity views.                                             *)
(***************************************************************************)
\* The field was asked for: no projection was given, or it names the field.
WasRequested(view, name) == view.expected = {} \/ name \in view.expected

\* The raw document has the field, under the name it is stored as.
Present(view, name) == GetDbname(schema.attrs[name], name) \in DOMAIN view.data

\* The inbound transform of the field's stored value.
Decoded(view, name) ==
    FromMongo(schema.attrs[name], view.data[GetDbname(schema.attrs[name], name)])

StoredName(name) == GetDbname(schema.attrs[name], name)

\* C14 as stated: find_one with a non-empty projection sends the store a
\* projection that selects every key field under the name it is stored as,
\* so the entity returned for a document that holds every key field exposes
\* the stored value of each, and a query on the unique key built from the
\* entity finds the document again.
C14_AsStated ==
    (/\ lastOp = "find_one" /\ result = "ok" /\ flag # {}
     /\ \A n \in schema.keys.names : StoredName(n) \in DOMAIN docs[1]) =>
        /\ \A n \in schema.keys.names : StoredName(n) \in ret.expected \cup {"_id"}
        /\ \A n \in schema.keys.names :
              ret.attrs[n] = FromMongo(schema.attrs[n], docs[1][StoredName(n)])
        /\ Matches(docs[1], QueryToMongo(schema.attrs, "y" :> ret.attrs["y"]).doc)
(***************************************************************************)
(* Properties of update translation.                                       *)
(***************************************************************************)
\* The stored names of the fields an update names.
StoredNames(kw) == { StoredName(n) : n \in DOMAIN kw }

\* The matched document has every field the update names, with its value.
HasWritten(d, kw) ==
    \A n \in DOMAIN kw : StoredName(n) \in DOMAIN d /\ d[StoredName(n)] = kw[n]

\* Every field the update does not name is as it was.
OthersKept(old, new, kw) ==
    \A k \in (DOMAIN old \cup DOMAIN new) \ StoredNames(kw) :
        k \in DOMAIN old /\ k \in DOMAIN new /\ new[k] = old[k]

\* C15 as stated: an update of bare fields acts as the set-fields operator
\* on them: the matched document gets the fields and its other fields are
\* unchanged.
C15_AsStated ==
    [][ (lastOp' = "update_one" /\ result' = "ok") =>
           (HasWritten(docs'[1], flag') /\ OthersKept(docs[1], docs'[1], flag'))
      ]_vars

\* C15 as the code and the store behave: the bare fields are encoded under
\* the scalar context and sent at the top level of the update document,
\* which the store takes as a REPLACEMENT: the matched document keeps its
\* identifier and holds the given fields and nothing else.  The set-fields
\* operator itself (set_one) changes the given fields only.
C15_Replacement ==
    [][ /\ (lastOp' = "update_one" /\ result' = "ok") =>
              /\ HasWritten(docs'[1], flag')
              /\ DOMAIN docs'[1] = {"_id"} \cup StoredNames(flag')
              /\ docs'[1]["_id"] = docs[1]["_id"]
        /\ (lastOp' = "set_one" /\ result' = "ok") =>
              (HasWritten(docs'[1], flag') /\ OthersKept(docs[1], docs'[1], flag'))
      ]_vars

\* update_one(y=1, x=2) found the document by its key y and left it
\* without the key field.
C15_Witness ==
    /\ lastOp = "update_one" /\ result = "ok"
    /\ query = ("y" :> 1) /\ flag = ("x" :> 2)
    /\ DOMAIN docs[1] = {"_id", "x"}
(***************************************************************************)
(* Properties of update translation.                                       *)
(***************************************************************************)
\* The context the operators are encoded under, "" for the untransformed.
ClaimedContext(op) ==
    CASE op \in {"$set", "$unset"} -> "AUTO"
      [] op \in {"$push", "$pull"} -> "ATOM"
      [] op \in {"$pushAll", "$pullAll"} -> "LIST"
      [] op \in {"$inc", "$pop"} -> ""
      [] OTHER -> "unsupported"

IsCollection(ft) == ft.kind = "EnumSet"

\* The operator's mapping as the store is to receive it: each value encoded
\* by its field's type under the operator's context, under the stored name.
Encoded(attrs, upd) ==
    [dn \in { GetDbname(attrs[k], k) : k \in DOMAIN upd.fields } |->
        LET k == CHOOSE k \in DOMAIN upd.fields : GetDbname(attrs[k], k) = dn
        IN  IF ClaimedContext(upd.op) = "" THEN upd.fields[k]
            ELSE IF ClaimedContext(upd.op) = "ATOM"
            THEN (IF InEnum(upd.fields[k]) THEN upd.fields[k] ELSE NoneItem)
            ELSE DoToMongo(attrs[k], upd.fields[k])]

\* C16: an update is translated operator by operator: $set and $unset under
\* the scalar context, $push and $pull item-wise, $pushAll and $pullAll
\* list-wise, $inc and $pop untransformed; an unknown $-operator raises
\* UnsupportedMongodbOpError, an append or remove on a non-collection field
\* raises ScalarUsedInVectorTransformContextError, and in both error cases
\* the store receives no update and the collection is as it was.
C16_Translation ==
    [][ lastOp' = "update" =>
          LET upd == flag'
              ctx == ClaimedContext(upd.op)
              scalar == \E k \in DOMAIN upd.fields : ~IsCollection(schema.attrs[k])
          IN  IF ctx = "unsupported"
              THEN /\ result' = "UnsupportedMongodbOpError"
                   /\ calls' = <<>> /\ dbval' = NothingSent /\ docs' = docs
              ELSE IF ctx \in {"ATOM", "LIST"} /\ scalar
              THEN /\ result' = "ScalarUsedInVectorTransformContextError"
                   /\ calls' = <<>> /\ dbval' = NothingSent /\ docs' = docs
              ELSE /\ calls' = <<"update">>
                   /\ dbval' = UpdateDoc(upd.op, Encoded(schema.attrs, upd)) ]_vars

\* A list with a repeated item went to the store without the repeat, under
\* $pushAll, and the stored array has grown by it.
C16_Witness ==
    /\ lastOp = "update"
    /\ flag = UpdateDoc("$pushAll", "tags" :> <<"g", "g", "b">>)
    /\ dbval = UpdateDoc("$pushAll", "tags" :> <<"g", "b">>)
    /\ result = "ok"
    /\ docs[1]["tags"] = <<"g", "b">>

(***************************************************************************)
(* Properties of the Int codec.                                            *)
(***************************************************************************)
\* The stored values int() accepts: numbers and strings of digits.
Coercible(raw) == raw \in 0..2 \/ IsNumStr(raw)

Coerced(raw) == IF IsNumStr(raw) THEN raw - 200 ELSE raw

\* C17 as stated: decoding a stored Int value never raises; it gives the
\* coerced integer for a coercible value and the field's default for every
\* other (null, a string that is no numeral, a list, a nested mapping).
C17_AsStated ==
    (lastOp = "from_mongo" /\ ftype = IntF) =>
        /\ result = "ok"
        /\ Coercible(dbval) => pyval = Coerced(dbval)
        /\ ~Coercible(dbval) => pyval = IntDefault

(***************************************************************************)
(* Properties of the check after index creation.                           *)
(***************************************************************************)
\* The run has made its create_index calls and is about to read the
\* catalogue, which lacks the name one of the calls returned.
AbsentAtRead ==
    /\ recon.pc = "create" /\ recon.todo = <<>>
    /\ \E name \in Range(recon.created) : \A e \in indexes : e.name # name

\* C18: when a requested index is absent from the catalogue read after the
\* creations, the run raises CreateIndexError at that step, before the drop
\* step: it has issued no drop_index, has dropped nothing, and the
\* catalogue after the error is the catalogue that was read.
C18_ErrorBeforeDrop ==
    /\ [][ AbsentAtRead =>
              /\ result' = "CreateIndexError"
              /\ recon'.pc = "raised"
              /\ indexes' = indexes
              /\ "drop_index" \notin Range(calls')
              /\ hist'[Len(hist')].dropped = <<>>
              /\ hist'[Len(hist')].after = indexes ]_vars
    /\ [][ (recon.pc = "raised" /\ recon'.pc = "raised") => indexes' = indexes ]_vars
    /\ [](\A i \in DOMAIN hist :
            hist[i].result = "CreateIndexError" => hist[i].dropped = <<>>)

\* A run raised CreateIndexError and an index its drop step would have
\* removed is still in the catalogue.
C18_Witness ==
    /\ recon.pc = "raised" /\ result = "CreateIndexError"
    /\ \E e \in indexes : ShouldDrop(e.name, e.spec, recon.created)
    /\ \E e \in indexes : e.name = GenName(<<<<"x", ASCENDING>>>>)

(***************************************************************************)
(* Properties of reconciliation among other callers.                       *)
(***************************************************************************)
\* Two stored documents share the values of a declared unique key.
Duplicates ==
    \E key \in KeySetEntries(schema.keys) :
        /\ key.unique /\ KeyNames(key) # <<"id">>
        /\ Violates(docs, {IndexEntry(GenName(KeyOrList(schema, key)), KeyOrList(schema, key), TRUE)})

\* A reconciliation step failed: a run ended with an exception.
StepFailed == \E i \in DOMAIN hist : hist[i].result # "ok"

\* C19 as stated, its first half: with reconciliation serialized (a run
\* ends before any insert is issued and no two runs overlap) no two stored
\* documents share the values of a declared unique key and no
\* reconciliation step fails.
C19_AsStated == serial => (~Duplicates /\ ~StepFailed)

\* The same from a collection that holds the builtin index alone.
FreshSerial ==
    (serial /\ hist # <<>> /\ hist[1].before = {BuiltinIndex}) => (~Duplicates /\ ~StepFailed)

\* Without serialization: inserts ahead of the unique index leave
\* duplicates under the declared unique key.
RaceDuplicates == ~serial /\ Duplicates

\* Without serialization: a run's drop_index fails on an index the other
\* run has dropped.
RaceDoubleDrop ==
    /\ ~serial
    /\ recon.pc = "raised" /\ result = "OperationFailure"
    /\ calls # <<>> /\ calls[Len(calls)] = "drop_index"
    /\ \E i \in DOMAIN hist : hist[i].result = "ok" /\ hist[i].dropped # <<>>

====
